---- MODULE Spec2Model ----
(***************************************************************************)
(* Test-result reconciliation scripts (script.py, script_cpp.py,           *)
(* script_rust.py): a structured reference result set and a textual test   *)
(* log are each extracted into a name -> status dict and then compared.    *)
(*                                                                         *)
(* Python strings are modelled as sequences of one-character strings, so   *)
(* that strip(), upper(), splitlines(), the regular expressions, json      *)
(* parsing and sorted() are computed character by character.               *)
(***************************************************************************)
EXTENDS Integers, Sequences, FiniteSets, TLC

VARIABLES
    build,         \* which script runs: "pytest", "gtest" or "rust"
    pc,            \* position of main()
    json_file,     \* the file at JSON_PATH: [kind, text]
    log_file,      \* the file at LOG_PATH: [kind, text]
    json_results,  \* dict returned by parse_results_json
    log_results,   \* dict returned by the log extractor
    lines,         \* txt.splitlines() of the loop in progress
    idx,           \* number of lines the loop in progress has consumed
    results,       \* the dict the loop in progress is filling
    structured,    \* what the structured pass of the log extractor returned
    result,        \* the ComparisonResult
    exc,           \* the exception in flight, "none" when there is none
    out,           \* what was printed, in order
    exit_code      \* the exit status of the process

vars == <<build, pc, json_file, log_file, json_results, log_results,
          lines, idx, results, structured, result, exc, out, exit_code>>

(***************************************************************************)
(* Characters and strings                                                  *)
(***************************************************************************)

\* The characters of the model's alphabet in code-point order.
CodeOrder ==
    <<"\t", "\n", " ", "\"", "(", ")", ",", "-", ".",
      "0", "1", "2", "3", "4", "5", "6", "7", "8", "9", ":",
      "A", "B", "C", "D", "E", "F", "G", "H", "I", "J", "K", "L", "M",
      "N", "O", "P", "Q", "R", "S", "T", "U", "V", "W", "X", "Y", "Z",
      "[", "]", "_",
      "a", "b", "c", "d", "e", "f", "g", "h", "i", "j", "k", "l", "m",
      "n", "o", "p", "q", "r", "s", "t", "u", "v", "w", "x", "y", "z",
      "{", "}">>

Ord(c) == CHOOSE i \in 1..Len(CodeOrder) : CodeOrder[i] = c

\* str.isspace() / the regex class \s, on the model's alphabet.
IsSpace(c) == c \in {" ", "\t", "\n"}

\* The regex class \w, on the model's alphabet.
IsWord(c) == c \notin {"\t", "\n", " ", "\"", "(", ")", ",", "-", ".", ":",
                       "[", "]", "{", "}"}

LowerToUpper ==
    [a |-> "A", b |-> "B", c |-> "C", d |-> "D", e |-> "E", f |-> "F",
     g |-> "G", h |-> "H", i |-> "I", j |-> "J", k |-> "K", l |-> "L",
     m |-> "M", n |-> "N", o |-> "O", p |-> "P", q |-> "Q", r |-> "R",
     s |-> "S", t |-> "T", u |-> "U", v |-> "V", w |-> "W", x |-> "X",
     y |-> "Y", z |-> "Z"]

UpperChar(c) == IF c \in DOMAIN LowerToUpper THEN LowerToUpper[c] ELSE c

LowerChar(c) ==
    IF \E k \in DOMAIN LowerToUpper : LowerToUpper[k] = c
    THEN CHOOSE k \in DOMAIN LowerToUpper : LowerToUpper[k] = c
    ELSE c

\* str.upper() and str.lower()
Upper(s) == [i \in 1..Len(s) |-> UpperChar(s[i])]
Lower(s) == [i \in 1..Len(s) |-> LowerChar(s[i])]

\* s[i:] for a 1-based position i
From(s, i) == SubSeq(s, i, Len(s))

\* str.lstrip(), str.rstrip(), str.strip()
LStrip(s) ==
    IF \A i \in 1..Len(s) : IsSpace(s[i]) THEN <<>>
    ELSE From(s, CHOOSE i \in 1..Len(s) :
                    /\ ~IsSpace(s[i])
                    /\ \A j \in 1..(i-1) : IsSpace(s[j]))

RStrip(s) ==
    IF \A i \in 1..Len(s) : IsSpace(s[i]) THEN <<>>
    ELSE SubSeq(s, 1, CHOOSE i \in 1..Len(s) :
                         /\ ~IsSpace(s[i])
                         /\ \A j \in (i+1)..Len(s) : IsSpace(s[j]))

Strip(s) == LStrip(RStrip(s))

\* s.startswith(p) at 1-based position i
StartsAt(s, i, p) ==
    /\ i + Len(p) - 1 <= Len(s)
    /\ \A k \in 1..Len(p) : s[i + k - 1] = p[k]

\* p in s
Contains(s, p) == \E i \in 1..(Len(s) + 1) : StartsAt(s, i, p)

\* Every character of s[from..to] is white space.
AllSpace(s, from, to) == \A k \in from..to : IsSpace(s[k])

\* The first position >= i that holds no white space; Len(s) + 1 if none.
FirstNonSpace(s, i) ==
    CHOOSE j \in i..(Len(s) + 1) :
        /\ j = Len(s) + 1 \/ ~IsSpace(s[j])
        /\ AllSpace(s, i, j - 1)

\* Python's < on str: lexicographic by code point.
StrLess(a, b) ==
    \E k \in 1..(Len(b)) :
        /\ k - 1 <= Len(a)
        /\ \A j \in 1..(k-1) : a[j] = b[j]
        /\ \/ k = Len(a) + 1
           \/ (k <= Len(a) /\ Ord(a[k]) < Ord(b[k]))

\* str.splitlines() on the model's alphabet ("\n" is the only line break).
RECURSIVE SplitLines(_)
SplitLines(s) ==
    IF s = <<>> THEN <<>>
    ELSE IF \E i \in 1..Len(s) : s[i] = "\n"
         THEN LET i == CHOOSE i \in 1..Len(s) :
                          s[i] = "\n" /\ \A j \in 1..(i-1) : s[j] # "\n"
              IN  <<SubSeq(s, 1, i-1)>> \o SplitLines(From(s, i+1))
         ELSE <<s>>

(***************************************************************************)
(* Dicts: functions from names to values                                   *)
(***************************************************************************)

EmptyDict == [n \in {} |-> <<>>]

\* d[k] = v
Put(d, k, v) == [n \in (DOMAIN d) \cup {k} |-> IF n = k THEN v ELSE d[n]]

\* sorted(S) for a set of strings
RECURSIVE Sorted(_)
Sorted(S) ==
    IF S = {} THEN <<>>
    ELSE LET m == CHOOSE x \in S : \A y \in S \ {x} : StrLess(x, y)
         IN  <<m>> \o Sorted(S \ {m})

(***************************************************************************)
(* Status words                                                            *)
(***************************************************************************)

sPASSED  == <<"P","A","S","S","E","D">>
sFAILED  == <<"F","A","I","L","E","D">>
sSKIPPED == <<"S","K","I","P","P","E","D">>
sXFAILED == <<"X","F","A","I","L","E","D">>
sXPASS   == <<"X","P","A","S","S">>
sERROR   == <<"E","R","R","O","R">>
sRERUN   == <<"R","E","R","U","N">>
sOK      == <<"O","K">>
sIGNORED == <<"I","G","N","O","R","E","D">>

(***************************************************************************)
(* json.loads                                                              *)
(*                                                                         *)
(* A JSON value is [t |-> type, v |-> value]: "str" with its characters,   *)
(* "num" with its literal (unsigned integers only), "bool", "null", "list" *)
(* with a sequence of values, "dict" with a function from keys to values.  *)
(* Strings hold no escapes.                                                *)
(***************************************************************************)

JStr(chars)  == [t |-> "str", v |-> chars]
JNum(digits) == [t |-> "num", v |-> digits]
JBool(b)     == [t |-> "bool", v |-> b]
JNull        == [t |-> "null", v |-> <<>>]
JList(items) == [t |-> "list", v |-> items]
JDict(map)   == [t |-> "dict", v |-> map]

\* JSONDecodeError
JFail == [ok |-> FALSE, val |-> JNull, pos |-> 0]

JOk(val, pos) == [ok |-> TRUE, val |-> val, pos |-> pos]

IsDigit(c) == c \in {"0", "1", "2", "3", "4", "5", "6", "7", "8", "9"}

\* A string literal that opens at position i.
ParseString(s, i) ==
    LET closes == {k \in (i + 1)..Len(s) : s[k] = "\""}
        k == CHOOSE x \in closes : \A y \in closes : x <= y
    IN  IF closes = {} THEN JFail
        ELSE IF \E j \in (i + 1)..(k - 1) : s[j] \in {"\t", "\n"} THEN JFail
        ELSE JOk(JStr(SubSeq(s, i + 1, k - 1)), k + 1)

\* An unsigned integer literal that starts at position i: 0 | [1-9][0-9]*
ParseNumber(s, i) ==
    LET last == CHOOSE k \in i..Len(s) :
                    /\ \A j \in i..k : IsDigit(s[j])
                    /\ k = Len(s) \/ ~IsDigit(s[k + 1])
        e == IF s[i] = "0" THEN i ELSE last
    IN  JOk(JNum(SubSeq(s, i, e)), e + 1)

RECURSIVE ParseValue(_, _), ParseElements(_, _, _), ParseMembers(_, _, _)

\* The value that starts at position i, which holds no white space.
ParseValue(s, i) ==
    IF i > Len(s) THEN JFail
    ELSE CASE s[i] = "\"" -> ParseString(s, i)
           [] s[i] = "[" ->
                LET j == FirstNonSpace(s, i + 1)
                IN  IF j <= Len(s) /\ s[j] = "]" THEN JOk(JList(<<>>), j + 1)
                    ELSE ParseElements(s, j, <<>>)
           [] s[i] = "{" ->
                LET j == FirstNonSpace(s, i + 1)
                IN  IF j <= Len(s) /\ s[j] = "}"
                    THEN JOk(JDict(EmptyDict), j + 1)
                    ELSE ParseMembers(s, j, EmptyDict)
           [] StartsAt(s, i, <<"t","r","u","e">>) -> JOk(JBool(TRUE), i + 4)
           [] StartsAt(s, i, <<"f","a","l","s","e">>) ->
                JOk(JBool(FALSE), i + 5)
           [] StartsAt(s, i, <<"n","u","l","l">>) -> JOk(JNull, i + 4)
           [] IsDigit(s[i]) -> ParseNumber(s, i)
           [] OTHER -> JFail

\* The elements of a list from position i on, after `acc`.
ParseElements(s, i, acc) ==
    LET v == ParseValue(s, i)
        j == FirstNonSpace(s, v.pos)
    IN  IF ~v.ok \/ j > Len(s) THEN JFail
        ELSE IF s[j] = ","
             THEN ParseElements(s, FirstNonSpace(s, j + 1),
                                Append(acc, v.val))
        ELSE IF s[j] = "]" THEN JOk(JList(Append(acc, v.val)), j + 1)
        ELSE JFail

\* The members of an object from position i on, after `acc`; a key that
\* comes again replaces the earlier one.
ParseMembers(s, i, acc) ==
    IF i > Len(s) \/ s[i] # "\"" THEN JFail
    ELSE LET k == ParseString(s, i)
             c == FirstNonSpace(s, k.pos)
         IN  IF ~k.ok \/ c > Len(s) \/ s[c] # ":" THEN JFail
             ELSE LET v == ParseValue(s, FirstNonSpace(s, c + 1))
                      j == FirstNonSpace(s, v.pos)
                      d == Put(acc, k.val.v, v.val)
                  IN  IF ~v.ok \/ j > Len(s) THEN JFail
                      ELSE IF s[j] = ","
                           THEN ParseMembers(s, FirstNonSpace(s, j + 1), d)
                      ELSE IF s[j] = "}" THEN JOk(JDict(d), j + 1)
                      ELSE JFail

\* json.loads(s): one value, white space around it, nothing after it.
JsonLoads(s) ==
    LET v == ParseValue(s, FirstNonSpace(s, 1))
    IN  IF v.ok /\ FirstNonSpace(s, v.pos) = Len(s) + 1 THEN v ELSE JFail

(***************************************************************************)
(* Python built-ins on JSON values                                         *)
(***************************************************************************)

\* obj.get(k, default)
Get(obj, k, default) == IF k \in DOMAIN obj.v THEN obj.v[k] ELSE default

\* str(v) for a scalar v. (str() of a list or dict is its repr, which the
\* model's alphabet cannot spell; it is never blank.)
PyStr(v) ==
    CASE v.t = "str"  -> v.v
      [] v.t = "num"  -> v.v
      [] v.t = "bool" -> IF v.v THEN <<"T","r","u","e">>
                                ELSE <<"F","a","l","s","e">>
      [] v.t = "null" -> <<"N","o","n","e">>
      [] v.t = "list" -> <<"[", "]">>
      [] v.t = "dict" -> <<"{", "}">>

\* bool(v)
Truthy(v) ==
    CASE v.t = "str"  -> v.v # <<>>
      [] v.t = "num"  -> v.v # <<"0">>
      [] v.t = "bool" -> v.v
      [] v.t = "null" -> FALSE
      [] v.t = "list" -> v.v # <<>>
      [] v.t = "dict" -> DOMAIN v.v # {}

kName      == <<"n","a","m","e">>
kStatus    == <<"s","t","a","t","u","s">>
kTests     == <<"t","e","s","t","s">>
kItems     == <<"i","t","e","m","s">>
kResults   == <<"r","e","s","u","l","t","s">>
kCases     == <<"c","a","s","e","s">>
kType      == <<"t","y","p","e">>
kEvent     == <<"e","v","e","n","t">>
kTest      == <<"t","e","s","t">>
kTestsuites == <<"t","e","s","t","s","u","i","t","e","s">>
kTestsuite == <<"t","e","s","t","s","u","i","t","e">>
kClassname == <<"c","l","a","s","s","n","a","m","e">>
kResult    == <<"r","e","s","u","l","t">>
kOk        == <<"o","k">>

(***************************************************************************)
(* _canon_status                                                           *)
(***************************************************************************)

\* CANON_STATUSES of each script.
CANON_STATUSES(b) ==
    LET common == (sPASSED :> sPASSED) @@ (sFAILED :> sFAILED)
                  @@ (sSKIPPED :> sSKIPPED) @@ (sXFAILED :> sXFAILED)
                  @@ (sXPASS :> sXPASS) @@ (sERROR :> sERROR)
    IN  CASE b = "pytest" -> common
          [] b = "gtest"  -> common @@ (sOK :> sPASSED)
          [] b = "rust"   -> common @@ (sOK :> sPASSED)
                                    @@ (sIGNORED :> sSKIPPED)

\* s = (s or "").strip().upper(); return CANON_STATUSES.get(s, s)
_canon_statusNoUpper(b, s) ==
    LET u == Strip(s)
    IN  IF u \in DOMAIN CANON_STATUSES(b) THEN CANON_STATUSES(b)[u] ELSE u

_canon_status(b, s) ==
    LET u == Upper(Strip(s))
    IN  IF u \in DOMAIN CANON_STATUSES(b) THEN CANON_STATUSES(b)[u] ELSE u

(***************************************************************************)
(* _ensure_file_ok, _extract_tests_array, parse_results_json               *)
(*                                                                         *)
(* A function that may raise returns [exc |-> the exception's type, "none" *)
(* when it returns normally, val |-> what it returns].                     *)
(***************************************************************************)

Return(val) == [exc |-> "none", val |-> val]

Raise(type) == [exc |-> type, val |-> <<>>]

\* The exception _ensure_file_ok raises for the file f, "none" when it
\* returns f.text.
_ensure_file_ok(f) ==
    CASE f.kind = "missing" -> "FileNotFoundError"
      [] f.kind = "dir" -> "IsADirectoryError"
      [] f.text = <<>> -> "ValueError"
      [] Strip(f.text) = <<>> -> "ValueError"
      [] OTHER -> "none"

TEST_ARRAY_KEYS == <<kTests, kItems, kResults, kCases>>

_extract_tests_array(obj) ==
    IF obj.t = "list" THEN Return(obj.v)
    ELSE LET hits == {k \in 1..Len(TEST_ARRAY_KEYS) :
                         /\ obj.t = "dict"
                         /\ Get(obj, TEST_ARRAY_KEYS[k], JNull).t = "list"}
         IN  IF hits = {} THEN Raise("ValueError")
             ELSE Return(obj.v[TEST_ARRAY_KEYS[
                             CHOOSE k \in hits : \A m \in hits : k <= m]].v)

\* The except json.JSONDecodeError branch: one JSON value per non-blank line.
NdjsonTests(txt) ==
    LET nonblank == SelectSeq(SplitLines(txt), LAMBDA ln : Strip(ln) # <<>>)
        objs == [i \in 1..Len(nonblank) |-> JsonLoads(nonblank[i])]
    IN  IF \E i \in 1..Len(objs) : ~objs[i].ok THEN Raise("ValueError")
        ELSE _extract_tests_array(
                 JList([i \in 1..Len(objs) |-> objs[i].val]))

\* tests = ... of parse_results_json: the whole text as one JSON document,
\* line by line when that raises JSONDecodeError.
TestsOf(txt) ==
    LET data == JsonLoads(txt)
    IN  IF data.ok THEN _extract_tests_array(data.val) ELSE NdjsonTests(txt)

\* The loop over enumerate(tests), from entry i on, with `acc` filled so far.
RECURSIVE EntriesFrom(_, _, _, _)
EntriesFrom(b, tests, i, acc) ==
    IF i > Len(tests) THEN Return(acc)
    ELSE LET item == tests[i]
             name == Strip(PyStr(Get(item, kName, JStr(<<>>))))
             status == _canon_status(
                           b, Strip(PyStr(Get(item, kStatus, JStr(<<>>)))))
         IN  IF item.t # "dict" THEN Raise("ValueError")
             ELSE IF name = <<>> THEN Raise("ValueError")
             ELSE EntriesFrom(b, tests, i + 1, Put(acc, name, status))

\* What parse_results_json does with the dict its loop has filled.
NonEmptyOrRaise(filled) ==
    IF filled.exc # "none" THEN Raise(filled.exc)
    ELSE IF DOMAIN filled.val = {} THEN Raise("ValueError")
    ELSE Return(filled.val)

\* parse_results_json from its loop on, given what tests = ... gave.
ResultsOfTests(b, tests) ==
    IF tests.exc # "none" THEN Raise(tests.exc)
    ELSE NonEmptyOrRaise(EntriesFrom(b, tests.val, 1, EmptyDict))

\* parse_results_json of script b on the file f
parse_results_json(b, f) ==
    IF _ensure_file_ok(f) # "none" THEN Raise(_ensure_file_ok(f))
    ELSE ResultsOfTests(b, TestsOf(f.text))

(***************************************************************************)
(* _parse_gtest_json                                                       *)
(***************************************************************************)

\* What `for x in v` iterates over: the items of a list, the characters of
\* a str, the keys of a dict; a TypeError for anything else.
Iterate(v) ==
    CASE v.t = "list" -> Return(v.v)
      [] v.t = "str"  -> Return([i \in 1..Len(v.v) |-> JStr(<<v.v[i]>>)])
      [] v.t = "dict" -> Return([i \in 1..Len(Sorted(DOMAIN v.v)) |->
                                    JStr(Sorted(DOMAIN v.v)[i])])
      [] OTHER -> Raise("TypeError")

\* a or b
Or(a, b) == IF Truthy(a) THEN a ELSE b

\* The status the body of the loop over cases gives the case tc: <<>> when
\* it gives none.
GtestCaseStatus(tc) ==
    LET ok == Get(tc, kOk, JNull)
        res == Upper(Strip(PyStr(Get(tc, kResult, JStr(<<>>)))))
    IN  IF \/ Upper(PyStr(Get(tc, kStatus, JStr(<<>>)))) = sSKIPPED
           \/ Upper(PyStr(Get(tc, kResult, JStr(<<>>)))) = sSKIPPED
        THEN sSKIPPED
        ELSE IF ok.t = "bool" THEN (IF ok.v THEN sPASSED ELSE sFAILED)
        ELSE IF res \in {sPASSED, <<"S","U","C","C","E","S","S">>,
                         <<"C","O","M","P","L","E","T","E","D">>}
             THEN sPASSED
        ELSE IF res \in {sFAILED, <<"F","A","I","L","U","R","E">>}
             THEN sFAILED
        ELSE IF res = sSKIPPED THEN sSKIPPED
        ELSE <<>>

\* The loop over the cases of the suite ts, from case j on.
RECURSIVE GtestCasesFrom(_, _, _, _)
GtestCasesFrom(ts, cases, j, acc) ==
    IF j > Len(cases) THEN Return(acc)
    ELSE LET tc == cases[j]
             suiteVal == Or(Or(Get(tc, kClassname, JNull),
                               Get(ts, kName, JNull)), JStr(<<>>))
             suite == Strip(suiteVal.v)
             test == Strip(PyStr(Get(tc, kName, JStr(<<>>))))
             name == IF suite # <<>> THEN suite \o <<".">> \o test ELSE test
             status == GtestCaseStatus(tc)
         IN  IF tc.t # "dict" THEN Raise("AttributeError")
             ELSE IF suiteVal.t # "str" THEN Raise("AttributeError")
             ELSE IF test = <<>> THEN GtestCasesFrom(ts, cases, j + 1, acc)
             ELSE GtestCasesFrom(ts, cases, j + 1,
                                 IF status = <<>> THEN acc
                                 ELSE Put(acc, name, status))

\* The loop over obj.get("testsuites", []), from suite i on.
RECURSIVE GtestSuitesFrom(_, _, _)
GtestSuitesFrom(suites, i, acc) ==
    IF i > Len(suites) THEN Return(acc)
    ELSE LET ts == suites[i]
             cases == Iterate(Or(Or(Get(ts, kTestsuite, JNull),
                                    Get(ts, kTests, JList(<<>>))),
                                 JList(<<>>)))
             filled == GtestCasesFrom(ts, cases.val, 1, acc)
         IN  IF ts.t # "dict" THEN Raise("AttributeError")
             ELSE IF cases.exc # "none" THEN Raise(cases.exc)
             ELSE IF filled.exc # "none" THEN Raise(filled.exc)
             ELSE GtestSuitesFrom(suites, i + 1, filled.val)

_parse_gtest_json(txt) ==
    LET obj == JsonLoads(txt)
        suites == Iterate(obj.val.v[kTestsuites])
    IN  IF ~obj.ok THEN Return(EmptyDict)
        ELSE IF obj.val.t # "dict" \/ kTestsuites \notin DOMAIN obj.val.v
             THEN Return(EmptyDict)
        ELSE IF suites.exc # "none" THEN Raise(suites.exc)
        ELSE GtestSuitesFrom(suites.val, 1, EmptyDict)

(***************************************************************************)
(* _parse_rust_json_lines: the body of the loop over txt.splitlines()      *)
(***************************************************************************)

RustJsonLine(acc, raw) ==
    LET line == Strip(raw)
        obj == JsonLoads(line)
        name == Strip(PyStr(Get(obj.val, kName, JStr(<<>>))))
        ev == Lower(Strip(PyStr(Get(obj.val, kEvent, JStr(<<>>)))))
    IN  IF line = <<>> THEN acc
        ELSE IF ~(/\ StartsAt(line, 1, <<"{">>)
                  /\ Contains(line, <<"\"">> \o kType \o <<"\"">>)
                  /\ Contains(line, <<"\"">> \o kEvent \o <<"\"">>))
             THEN acc
        ELSE IF ~obj.ok THEN acc
        ELSE IF Get(obj.val, kType, JNull) # JStr(kTest) THEN acc
        ELSE IF name = <<>> THEN acc
        ELSE IF ev = Lower(sOK) THEN Put(acc, name, sPASSED)
        ELSE IF ev = Lower(sFAILED) THEN Put(acc, name, sFAILED)
        ELSE IF ev = Lower(sIGNORED) THEN Put(acc, name, sSKIPPED)
        ELSE acc

(***************************************************************************)
(* Regular expressions                                                     *)
(***************************************************************************)

NoMatch == [ok |-> FALSE, name |-> <<>>, status |-> <<>>]

\* \b at the gap before position e
WordBoundary(s, e) ==
    (e - 1 >= 1 /\ e - 1 <= Len(s) /\ IsWord(s[e - 1]))
        # (e >= 1 /\ e <= Len(s) /\ IsWord(s[e]))

\* (?:\b.*)?$ at position e, on a line without line breaks
TailOk(s, e) == e = Len(s) + 1 \/ (e <= Len(s) /\ WordBoundary(s, e))

\* The first word of the alternation `alts` that matches at position q and is
\* followed by (?:\b.*)?$; <<>> when none does.
StatusAt(s, q, alts) ==
    LET fits == {k \in 1..Len(alts) :
                    StartsAt(s, q, alts[k]) /\ TailOk(s, q + Len(alts[k]))}
    IN  IF fits = {} THEN <<>>
        ELSE alts[CHOOSE k \in fits : \A m \in fits : k <= m]

\* \s+ from position p up to the word that StatusAt finds: the position of
\* that word, 0 when \s+(status)(?:\b.*)?$ does not match at p.
SpacesThenStatus(s, p, alts) ==
    LET qs == {q \in (p + 1)..Len(s) :
                  AllSpace(s, p, q - 1) /\ StatusAt(s, q, alts) # <<>>}
    IN  IF qs = {} THEN 0 ELSE CHOOSE q \in qs : \A r \in qs : r <= q

LOG_LINE_STATUSES ==
    <<sPASSED, sFAILED, sSKIPPED, sXFAILED, sXPASS, sERROR, sRERUN>>

\* LOG_LINE_RE.match(line):
\*   ^(?P<name>.+?)\s+(?P<status>PASSED|...|RERUN)(?:\b.*)?$
\* The name is lazy: the shortest prefix after which the rest matches.
LOG_LINE_RE(line) ==
    LET ends == {e \in 1..Len(line) :
                    SpacesThenStatus(line, e + 1, LOG_LINE_STATUSES) # 0}
    IN  IF ends = {} THEN NoMatch
        ELSE LET e == CHOOSE x \in ends : \A y \in ends : x <= y
                 q == SpacesThenStatus(line, e + 1, LOG_LINE_STATUSES)
             IN  [ok |-> TRUE, name |-> SubSeq(line, 1, e),
                  status |-> StatusAt(line, q, LOG_LINE_STATUSES)]

(***************************************************************************)
(* parse_pytest_log: the body of the loop over txt.splitlines()            *)
(***************************************************************************)

PytestLineKeepRerun(acc, raw) ==
    LET line == Strip(raw)
        m == LOG_LINE_RE(line)
    IN  IF line = <<>> THEN acc
        ELSE IF ~m.ok THEN acc
        ELSE Put(acc, Strip(m.name), _canon_status("pytest", m.status))

\* Keeps the first status seen for a name, RERUN included.
PytestLineFirstWins(acc, raw) ==
    LET line == Strip(raw)
        m == LOG_LINE_RE(line)
    IN  IF line = <<>> \/ ~m.ok \/ Strip(m.name) \in DOMAIN acc THEN acc
        ELSE Put(acc, Strip(m.name), _canon_status("pytest", m.status))

PytestLine(acc, raw) ==
    LET line == Strip(raw)
        m == LOG_LINE_RE(line)
        name == Strip(m.name)
        status == _canon_status("pytest", m.status)
    IN  IF line = <<>> THEN acc
        ELSE IF ~m.ok THEN acc
        ELSE IF status = sRERUN THEN acc
        ELSE Put(acc, name, status)

(***************************************************************************)
(* parse_gtest_log: the text pass                                          *)
(***************************************************************************)

\* ^\[\s*(tag)\s*\]\s+ : the tag matched and the position where the name
\* starts; start = 0 when the prefix does not match. \s+ is greedy and the
\* name that follows may reach the end of the line, so the name starts at the
\* first character that is not white space.
GtestPrefix(line, tags) ==
    LET p == FirstNonSpace(line, 2)
        fits == {k \in 1..Len(tags) :
                    /\ StartsAt(line, p, tags[k])
                    /\ LET r == FirstNonSpace(line, p + Len(tags[k]))
                       IN  /\ r <= Len(line)
                           /\ line[r] = "]"
                           /\ FirstNonSpace(line, r + 1) > r + 1
                           /\ FirstNonSpace(line, r + 1) <= Len(line)}
    IN  IF Len(line) = 0 \/ line[1] # "[" \/ fits = {}
        THEN [tag |-> <<>>, start |-> 0]
        ELSE LET k == CHOOSE x \in fits : \A y \in fits : x <= y
                 r == FirstNonSpace(line, p + Len(tags[k]))
             IN  [tag |-> tags[k], start |-> FirstNonSpace(line, r + 1)]

\* \s+\(.*\)\s*$ matches s from position a on
ParenSuffixAt(s, a) ==
    \E b \in (a + 1)..Len(s) :
        /\ AllSpace(s, a, b - 1)
        /\ s[b] = "("
        /\ \E c \in (b + 1)..Len(s) : s[c] = ")" /\ AllSpace(s, c + 1, Len(s))

GTEST_TAGS == <<sOK, sFAILED, sSKIPPED>>

\* GTEST_OUTCOME_RE.match(line):
\*   ^\[\s*(?P<tag>OK|FAILED|SKIPPED)\s*\]\s+(?P<name>.+?)(?:\s+\(.*\))?\s*$
GTEST_OUTCOME_RE(line) ==
    LET pre == GtestPrefix(line, GTEST_TAGS)
        ends == {e \in pre.start..Len(line) :
                    ParenSuffixAt(line, e + 1)
                        \/ AllSpace(line, e + 1, Len(line))}
    IN  IF pre.start = 0 THEN NoMatch
        ELSE [ok |-> TRUE,
              name |-> SubSeq(line, pre.start,
                              CHOOSE e \in ends : \A y \in ends : e <= y),
              status |-> pre.tag]

\* GTEST_SUMMARY_FAIL_RE.match(line): ^\[\s*FAILED\s*\]\s+(?P<name>.+?)\s*$
GTEST_SUMMARY_FAIL_RE(line) ==
    LET pre == GtestPrefix(line, <<sFAILED>>)
        ends == {e \in pre.start..Len(line) :
                    AllSpace(line, e + 1, Len(line))}
    IN  IF pre.start = 0 THEN NoMatch
        ELSE [ok |-> TRUE,
              name |-> SubSeq(line, pre.start,
                              CHOOSE e \in ends : \A y \in ends : e <= y),
              status |-> sFAILED]

\* re.sub(r"\s+\(.*\)\s*$", "", name).strip()
_sanitize_gtest_name(name) ==
    LET at == {a \in 1..Len(name) : ParenSuffixAt(name, a)}
    IN  IF at = {} THEN Strip(name)
        ELSE Strip(SubSeq(name, 1,
                          (CHOOSE a \in at : \A y \in at : a <= y) - 1))

\* The body of the loop over txt.splitlines() in parse_gtest_log.
GtestLineFirstWins(acc, raw) ==
    LET line == RStrip(raw)
        m  == GTEST_OUTCOME_RE(line)
        name == _sanitize_gtest_name(m.name)
    IN  IF line = <<>> \/ ~m.ok \/ name \in DOMAIN acc THEN acc
        ELSE Put(acc, name, _canon_status("gtest", Upper(m.status)))

GtestLine(acc, raw) ==
    LET line == RStrip(raw)
        m  == GTEST_OUTCOME_RE(line)
        m2 == GTEST_SUMMARY_FAIL_RE(line)
    IN  IF line = <<>> THEN acc
        ELSE IF m.ok
             THEN Put(acc, _sanitize_gtest_name(m.name),
                      _canon_status("gtest", Upper(m.status)))
        ELSE IF m2.ok
             THEN Put(acc, _sanitize_gtest_name(m2.name), sFAILED)
        ELSE acc

(***************************************************************************)
(* parse_rust_log: the text pass                                           *)
(***************************************************************************)

RUST_STATUSES == <<Lower(sOK), sFAILED, Lower(sIGNORED)>>

\* \s+\.\.\.\s+(?P<status>ok|FAILED|ignored)(?:\b.*)?$ from position p on:
\* the position of the status word, 0 when there is no match.
DotsThenStatus(line, p) ==
    LET d == FirstNonSpace(line, p)
    IN  IF d > p /\ StartsAt(line, d, <<".", ".", ".">>)
        THEN SpacesThenStatus(line, d + 3, RUST_STATUSES)
        ELSE 0

\* RUST_TEST_LINE_RE.match(line):
\*   ^test\s+(?P<name>.+?)\s+\.\.\.\s+(?P<status>ok|FAILED|ignored)(?:\b.*)?$
\* \s+ after "test" is greedy and gives white space back when nothing else
\* matches; the name is lazy.
RUST_TEST_LINE_RE(line) ==
    LET starts == {ns \in 6..Len(line) :
                      /\ AllSpace(line, 5, ns - 1)
                      /\ \E e \in ns..Len(line) :
                            DotsThenStatus(line, e + 1) # 0}
    IN  IF ~StartsAt(line, 1, <<"t", "e", "s", "t">>) \/ starts = {}
        THEN NoMatch
        ELSE LET ns == CHOOSE x \in starts : \A y \in starts : y <= x
                 ends == {e \in ns..Len(line) :
                              DotsThenStatus(line, e + 1) # 0}
                 e == CHOOSE x \in ends : \A y \in ends : x <= y
             IN  [ok |-> TRUE, name |-> SubSeq(line, ns, e),
                  status |-> StatusAt(line, DotsThenStatus(line, e + 1),
                                      RUST_STATUSES)]

\* The body of the loop of _parse_rust_text_lines.
RustTextLine(acc, raw) ==
    LET line == RStrip(raw)
        m == RUST_TEST_LINE_RE(line)
        status == CASE m.status = Lower(sOK) -> sPASSED
                    [] m.status = sFAILED -> sFAILED
                    [] m.status = Lower(sIGNORED) -> sSKIPPED
                    [] OTHER -> _canon_status("rust", m.status)
    IN  IF line = <<>> THEN acc
        ELSE IF ~m.ok THEN acc
        ELSE Put(acc, Strip(m.name), status)

(***************************************************************************)
(* compare                                                                 *)
(***************************************************************************)

\* only_in_json = sorted(json_names - log_names)
OnlyInJsonSwapped(json_res, log_res) ==
    Sorted((DOMAIN log_res) \ (DOMAIN json_res))

OnlyInJson(json_res, log_res) ==
    Sorted((DOMAIN json_res) \ (DOMAIN log_res))

\* only_in_log = sorted(log_names - json_names)
OnlyInLogNone(json_res, log_res) == <<>>

OnlyInLog(json_res, log_res) ==
    Sorted((DOMAIN log_res) \ (DOMAIN json_res))

\* The list comprehension over sorted(json_names & log_names).
StatusMismatchesNoFilter(json_res, log_res) ==
    LET common == Sorted((DOMAIN json_res) \cap (DOMAIN log_res))
    IN  [k \in 1..Len(common) |->
            <<common[k], json_res[common[k]], log_res[common[k]]>>]

StatusMismatches(json_res, log_res) ==
    LET common == Sorted((DOMAIN json_res) \cap (DOMAIN log_res))
        differ == SelectSeq(common, LAMBDA n : json_res[n] # log_res[n])
    IN  [k \in 1..Len(differ) |->
            <<differ[k], json_res[differ[k]], log_res[differ[k]]>>]

\* same = counts_equal and names_equal and statuses_equal
SameNamesOnly(counts_equal, names_equal, statuses_equal) ==
    counts_equal /\ names_equal

Same(counts_equal, names_equal, statuses_equal) ==
    counts_equal /\ names_equal /\ statuses_equal

compare(json_res, log_res) ==
    LET json_names == DOMAIN json_res
        log_names  == DOMAIN log_res
        only_in_json == OnlyInJson(json_res, log_res)
        only_in_log  == OnlyInLog(json_res, log_res)
        status_mismatches == StatusMismatches(json_res, log_res)
        counts_equal   == Cardinality(json_names) = Cardinality(log_names)
        names_equal    == only_in_json = <<>> /\ only_in_log = <<>>
        statuses_equal == status_mismatches = <<>>
    IN  [same              |-> Same(counts_equal, names_equal, statuses_equal),
         counts_equal      |-> counts_equal,
         names_equal       |-> names_equal,
         statuses_equal    |-> statuses_equal,
         count_json        |-> Cardinality(json_names),
         count_log         |-> Cardinality(log_names),
         only_in_json      |-> only_in_json,
         only_in_log       |-> only_in_log,
         status_mismatches |-> status_mismatches]

\* The value of `result` before compare() has returned.
NoResult == [same |-> FALSE, counts_equal |-> FALSE, names_equal |-> FALSE,
             statuses_equal |-> FALSE, count_json |-> 0, count_log |-> 0,
             only_in_json |-> <<>>, only_in_log |-> <<>>,
             status_mismatches |-> <<>>]

(***************************************************************************)
(* main: the two extractions                                               *)
(***************************************************************************)

\* json_results = parse_results_json(JSON_PATH)
ParseJson ==
    /\ pc = "parse_json"
    /\ LET r == parse_results_json(build, json_file)
       IN  IF r.exc = "none"
           THEN /\ json_results' = r.val
                /\ out' = out \o <<"[INFO] Reading JSON", "[INFO] Parsed JSON">>
                /\ pc' = "parse_log"
                /\ exc' = exc
           ELSE /\ exc' = r.exc
                /\ out' = out \o <<"[INFO] Reading JSON">>
                /\ pc' = "except"
                /\ json_results' = json_results
    /\ UNCHANGED <<build, json_file, log_file, log_results, lines, idx,
                   results, structured, result, exit_code>>

\* The log extractor up to its first pass: parse_pytest_log starts its loop
\* over the lines, parse_gtest_log and parse_rust_log their structured pass.
OpenLog ==
    /\ pc = "parse_log"
    /\ out' = out \o <<"[INFO] Reading log">>
    /\ IF _ensure_file_ok(log_file) # "none"
       THEN /\ exc' = _ensure_file_ok(log_file)
            /\ pc' = "except"
            /\ lines' = lines
       ELSE /\ exc' = exc
            /\ pc' = IF build = "pytest" THEN "text_pass"
                                         ELSE "structured_pass"
            /\ lines' = SplitLines(log_file.text)
    /\ UNCHANGED <<build, json_file, log_file, json_results, log_results,
                   idx, results, structured, result, exit_code>>

\* if json_results: return json_results
UseStructuredNever(d) == FALSE

UseStructured(d) == DOMAIN d # {}

\* json_results = _parse_gtest_json(txt), and what parse_gtest_log does with
\* it: return it, or start the loop over the lines.
GtestJson ==
    /\ pc = "structured_pass"
    /\ build = "gtest"
    /\ LET r == _parse_gtest_json(log_file.text)
       IN  IF r.exc # "none"
           THEN /\ exc' = r.exc
                /\ pc' = "except"
                /\ UNCHANGED <<structured, log_results, out>>
           ELSE /\ structured' = r.val
                /\ exc' = exc
                /\ IF UseStructured(r.val)
                   THEN /\ log_results' = r.val
                        /\ out' = out \o <<"[INFO] Parsed LOG">>
                        /\ pc' = "compare"
                   ELSE /\ pc' = "text_pass"
                        /\ UNCHANGED <<log_results, out>>
    /\ UNCHANGED <<build, json_file, log_file, json_results, lines, idx,
                   results, result, exit_code>>

\* One turn of the loop of _parse_rust_json_lines.
RustJsonStep ==
    /\ pc = "structured_pass"
    /\ build = "rust"
    /\ idx < Len(lines)
    /\ structured' = RustJsonLine(structured, lines[idx + 1])
    /\ idx' = idx + 1
    /\ UNCHANGED <<build, pc, json_file, log_file, json_results, log_results,
                   lines, results, result, exc, out, exit_code>>

\* _parse_rust_json_lines returns, and what parse_rust_log does with its
\* result: return it, or call _parse_rust_text_lines.
RustJsonDone ==
    /\ pc = "structured_pass"
    /\ build = "rust"
    /\ idx = Len(lines)
    /\ idx' = 0
    /\ IF UseStructured(structured)
       THEN /\ log_results' = structured
            /\ out' = out \o <<"[INFO] Parsed LOG">>
            /\ pc' = "compare"
       ELSE /\ pc' = "text_pass"
            /\ UNCHANGED <<log_results, out>>
    /\ UNCHANGED <<build, json_file, log_file, json_results, lines, results,
                   structured, result, exc, exit_code>>

\* The body of the text loop of script b.
TextLine(b, acc, raw) ==
    CASE b = "pytest" -> PytestLine(acc, raw)
      [] b = "gtest"  -> GtestLine(acc, raw)
      [] b = "rust"   -> RustTextLine(acc, raw)

\* One turn of the loop over txt.splitlines() of parse_pytest_log, of
\* parse_gtest_log or of _parse_rust_text_lines.
TextStep ==
    /\ pc = "text_pass"
    /\ idx < Len(lines)
    /\ results' = TextLine(build, results, lines[idx + 1])
    /\ idx' = idx + 1
    /\ UNCHANGED <<build, pc, json_file, log_file, json_results, log_results,
                   lines, structured, result, exc, out, exit_code>>

\* After the loop: raise ValueError when nothing was found, return the dict
\* otherwise.
TextDone ==
    /\ pc = "text_pass"
    /\ idx = Len(lines)
    /\ IF DOMAIN results = {}
       THEN /\ exc' = "ValueError"
            /\ pc' = "except"
            /\ UNCHANGED <<log_results, out>>
       ELSE /\ log_results' = results
            /\ out' = out \o <<"[INFO] Parsed LOG">>
            /\ pc' = "compare"
            /\ exc' = exc
    /\ UNCHANGED <<build, json_file, log_file, json_results, lines, idx,
                   results, structured, result, exit_code>>

(***************************************************************************)
(* main: compare, report, the exception handler                            *)
(***************************************************************************)

\* result = compare(json_results, log_results)
Compare ==
    /\ pc = "compare"
    /\ result' = compare(json_results, log_results)
    /\ pc' = "report"
    /\ UNCHANGED <<build, json_file, log_file, json_results, log_results,
                   lines, idx, results, structured, exc, out, exit_code>>

\* print_report(result); main() then returns and the process exits 0.
ReportExitsOneOnDifference ==
    /\ pc = "report"
    /\ out' = out \o <<IF result.same THEN "MATCH" ELSE "DIFFERENCES FOUND">>
                   \o <<"JSON_DIFF">>
    /\ exit_code' = IF result.same THEN 0 ELSE 1
    /\ pc' = "exit"
    /\ UNCHANGED <<build, json_file, log_file, json_results, log_results,
                   lines, idx, results, structured, result, exc>>

Report ==
    /\ pc = "report"
    /\ out' = out \o <<IF result.same THEN "MATCH" ELSE "DIFFERENCES FOUND">>
                   \o <<"JSON_DIFF">>
                   \o (IF build = "gtest"
                       THEN <<IF result.same THEN "FINAL REVIEW STATUS: PASS"
                                             ELSE "FINAL REVIEW STATUS: FAIL">>
                       ELSE <<>>)
    /\ pc' = "exit"
    /\ UNCHANGED <<build, json_file, log_file, json_results, log_results,
                   lines, idx, results, structured, result, exc, exit_code>>

\* except Exception as e: print the error, sys.exit(2)
HandleError ==
    /\ pc = "except"
    /\ out' = out \o <<"[ERROR]">>
    /\ exit_code' = 2
    /\ pc' = "exit"
    /\ UNCHANGED <<build, json_file, log_file, json_results, log_results,
                   lines, idx, results, structured, result, exc>>

Builds == {"pytest", "gtest", "rust"}

(***************************************************************************)
(* Input files                                                             *)
(***************************************************************************)

File(text) == [kind |-> "file", text |-> text]

Missing == [kind |-> "missing", text |-> <<>>]

Directory == [kind |-> "dir", text |-> <<>>]

\* The strings of seq joined by sep.
RECURSIVE JoinWith(_, _)
JoinWith(seq, sep) ==
    IF seq = <<>> THEN <<>>
    ELSE IF Len(seq) = 1 THEN seq[1]
    ELSE seq[1] \o sep \o JoinWith(Tail(seq), sep)

\* The text of a file with these lines.
TextOf(lns) == JoinWith(lns, <<"\n">>) \o <<"\n">>

Quoted(chars) == <<"\"">> \o chars \o <<"\"">>

\* The JSON object with these <<key, string>> members, on one line.
ObjectText(members) ==
    <<"{">>
    \o JoinWith([i \in 1..Len(members) |->
                    Quoted(members[i][1]) \o <<":">> \o Quoted(members[i][2])],
                <<",">>)
    \o <<"}">>

\* Sequences over S of length lo..hi.
SeqsOf(S, lo, hi) == UNION {[1..n -> S] : n \in lo..hi}

\* Largest number of entries in a generated reference file.
MaxEntries == 2

\* Entries of a reference file: each with the name and the status it
\* carries; name = <<>> for an entry the extractor must reject.
EntryPool ==
    {[text |-> ObjectText(<<<<kName, <<"A">>>>, <<kStatus, <<"p","a","s","s","e","d">>>>>>),
      name |-> <<"A">>, status |-> <<"p","a","s","s","e","d">>],
     [text |-> ObjectText(<<<<kStatus, <<"F","A","I","L","E","D">>>>, <<kName, <<" ","b"," ">>>>>>),
      name |-> <<"b">>, status |-> <<"F","A","I","L","E","D">>],
     [text |-> ObjectText(<<<<kName, <<"A">>>>, <<kStatus, <<" ","o","k"," ">>>>>>),
      name |-> <<"A">>, status |-> <<" ","o","k"," ">>],
     [text |-> ObjectText(<<<<kName, <<"b">>>>>>),
      name |-> <<"b">>, status |-> <<>>],
     [text |-> ObjectText(<<<<kName, <<" ">>>>, <<kStatus, <<"P","A","S","S","E","D">>>>>>),
      name |-> <<>>, status |-> <<"P","A","S","S","E","D">>],
     [text |-> ObjectText(<<<<kStatus, <<"P","A","S","S","E","D">>>>>>),
      name |-> <<>>, status |-> <<"P","A","S","S","E","D">>]}

EntrySeqs == SeqsOf(EntryPool, 1, MaxEntries)

EntryTexts(es) == [i \in 1..Len(es) |-> es[i].text]

\* (a) a JSON array of objects
ArrayText(es) == <<"[">> \o JoinWith(EntryTexts(es), <<",">>) \o <<"]">>

\* (b) a JSON object holding the array under key k
WrappedText(k, es) ==
    <<"{">> \o Quoted(k) \o <<":">> \o ArrayText(es) \o <<"}">>

\* (c) newline-delimited JSON objects
NdjsonText(es) == TextOf(EntryTexts(es))

JsonTexts ==
    {ArrayText(es) : es \in EntrySeqs}
    \cup {WrappedText(kTests, es) : es \in EntrySeqs}
    \cup {WrappedText(kCases, es) : es \in EntrySeqs}
    \cup {NdjsonText(es) : es \in EntrySeqs}
    \cup {<<"[","]">>, <<"{","}">>, <<"[","5","]">>, <<"[","{">>, <<" ","\n">>, <<>>,
          <<"{","\"","t","e","s","t","s","\"",":","5",",","\"","i","t","e","m","s","\"",":","[","{","\"","n","a","m","e","\"",":","\"","A","\"","}","]",",","\"","r","e","s","u","l","t","s","\"",":","[","]","}">>,
          <<"{","\"","n","a","m","e","\"",":","\"","A","\"","}","\n","\n","{","\"","n","a","m","e","\"",":","\"","b","\"","}","\n">>,
          <<"{","\"","n","a","m","e","\"",":","\"","A","\"","}","\n","n","o","t"," ","j","s","o","n","\n">>}

JsonFiles == {Missing, Directory} \cup {File(t) : t \in JsonTexts}

\* The logs main() is run on, for each script.
MainLogFiles(b) ==
    {Missing, File(<<" ","\n">>)}
    \cup CASE b = "pytest" ->
                {File(<<"A"," ","P","A","S","S","E","D","\n","b"," ","F","A","I","L","E","D","\n">>), File(<<"A"," ","F","A","I","L","E","D","\n">>),
                 File(<<"c","o","l","l","e","c","t","e","d"," ","2"," ","i","t","e","m","s","\n">>)}
           [] b = "gtest" ->
                {File(<<"["," ","O","K"," ","]"," ","A","\n","["," ","F","A","I","L","E","D"," ","]"," ","b","\n">>),
                 File(<<"{","\"","t","e","s","t","s","u","i","t","e","s","\"",":","[","{","\"","t","e","s","t","s","u","i","t","e","\"",":","[","{","\"","n","a","m","e","\"",":","\"","A","\"",",","\"","o","k","\"",":","t","r","u","e","}","]","}","]","}">>),
                 File(<<"{","\"","t","e","s","t","s","u","i","t","e","s","\"",":","5","}">>)}
           [] b = "rust" ->
                {File(<<"t","e","s","t"," ","A"," ",".",".","."," ","o","k","\n","t","e","s","t"," ","b"," ",".",".","."," ","F","A","I","L","E","D","\n">>),
                 File(<<"{","\"","t","y","p","e","\"",":","\"","t","e","s","t","\"",",","\"","e","v","e","n","t","\"",":","\"","o","k","\"",",","\"","n","a","m","e","\"",":","\"","A","\"","}","\n">>),
                 File(<<"r","u","n","n","i","n","g"," ","2"," ","t","e","s","t","s","\n">>)}

(***************************************************************************)
(* compare() alone, on every pair of small result sets                     *)
(***************************************************************************)

\* Largest number of tests in a result set handed to compare().
MaxTests == 3

CmpNames == {<<"B">>, <<"a">>, <<"a", "b">>, <<"b">>}

CmpStatuses == {sPASSED, sFAILED}

ResultSets ==
    UNION {[S -> CmpStatuses] :
              S \in {T \in SUBSET CmpNames : Cardinality(T) <= MaxTests}}

NoFile == [kind |-> "file", text |-> <<>>]

InitCompare ==
    /\ build \in Builds
    /\ pc = "compare"
    /\ json_file = NoFile
    /\ log_file = NoFile
    /\ json_results \in ResultSets
    /\ log_results \in ResultSets
    /\ lines = <<>>
    /\ idx = 0
    /\ results = EmptyDict
    /\ structured = EmptyDict
    /\ result = NoResult
    /\ exc = "none"
    /\ out = <<>>
    /\ exit_code = 0

NextCompare == Compare \/ Report

SpecCompare == InitCompare /\ [][NextCompare]_vars

\* compare() has returned in this state.
Compared == pc \in {"report", "exit"} /\ exc = "none"

\* C1: for non-empty result sets, compare(A, B).same is true exactly when A
\* and B have the same key set and the same status for every key.
C1_SameIffEqualMappings ==
    (Compared /\ DOMAIN json_results # {} /\ DOMAIN log_results # {}) =>
        (result.same <=>
            /\ DOMAIN json_results = DOMAIN log_results
            /\ \A n \in DOMAIN json_results : json_results[n] = log_results[n])

\* Two non-empty sets with the same two names that differ in one status only.
C1_Witness ==
    /\ Compared
    /\ Cardinality(DOMAIN json_results) = 2
    /\ DOMAIN json_results = DOMAIN log_results
    /\ json_results # log_results
    /\ ~result.same

\* The names of a list of names ascend strictly in code-point order.
Ascending(names) ==
    \A i \in 1..Len(names) : \A j \in (i+1)..Len(names) :
        StrLess(names[i], names[j])

Elems(seq) == {seq[i] : i \in 1..Len(seq)}

\* C2: only_in_json lists, ascending, exactly the names in A and not in B;
\* only_in_log lists, ascending, exactly the names in B and not in A;
\* status_mismatches lists, ascending by name, exactly the triples
\* (n, A[n], B[n]) of the common names whose statuses differ; no name is in
\* two of the lists.
C2_DiffLists ==
    Compared =>
        LET A == json_results
            B == log_results
            mm == result.status_mismatches
            mmNames == [k \in 1..Len(mm) |-> mm[k][1]]
        IN  /\ Ascending(result.only_in_json)
            /\ Elems(result.only_in_json) = (DOMAIN A) \ (DOMAIN B)
            /\ Ascending(result.only_in_log)
            /\ Elems(result.only_in_log) = (DOMAIN B) \ (DOMAIN A)
            /\ Ascending(mmNames)
            /\ Elems(mmNames) =
                  {n \in (DOMAIN A) \cap (DOMAIN B) : A[n] # B[n]}
            /\ \A k \in 1..Len(mm) :
                  mm[k] = <<mm[k][1], A[mm[k][1]], B[mm[k][1]]>>
            /\ Elems(result.only_in_json) \cap Elems(result.only_in_log) = {}
            /\ Elems(result.only_in_json) \cap Elems(mmNames) = {}
            /\ Elems(result.only_in_log) \cap Elems(mmNames) = {}

\* Two names only in the reference, one only in the log, one mismatch.
C2_Witness ==
    /\ Compared
    /\ Len(result.only_in_json) = 2
    /\ Len(result.only_in_log) = 1
    /\ Len(result.status_mismatches) = 1

\* C3: swapping the roles of the two result sets swaps only_in_json with
\* only_in_log and leaves same, counts_equal, names_equal and statuses_equal
\* as they are.
C3_RoleSwap ==
    Compared =>
        LET swapped == compare(log_results, json_results)
        IN  /\ result.only_in_json = swapped.only_in_log
            /\ result.only_in_log = swapped.only_in_json
            /\ result.same = swapped.same
            /\ result.counts_equal = swapped.counts_equal
            /\ result.names_equal = swapped.names_equal
            /\ result.statuses_equal = swapped.statuses_equal

\* The two difference lists differ, so the swap is visible.
C3_Witness ==
    /\ Compared
    /\ Len(result.only_in_json) = 2
    /\ result.only_in_log = <<>>
    /\ ~result.statuses_equal

(***************************************************************************)
(* The log extractors on generated logs                                    *)
(*                                                                         *)
(* A generated line is [txt |-> its text, pass |-> "text", "json" or       *)
(* "none" for a line that reports no outcome, name |-> the test it is      *)
(* about, status |-> the status it reports].                               *)
(***************************************************************************)

\* Largest number of lines in a generated log.
MaxLogLines == 3

Noise(txt) == [txt |-> txt, pass |-> "none", name |-> <<>>, status |-> <<>>]

\* <indent><name><sep><STATUS><trail>
PytestOutcome(indent, name, sep, status, trail) ==
    [txt |-> indent \o name \o sep \o status \o trail,
     pass |-> "text", name |-> name, status |-> status]

PytestLinePool ==
    {PytestOutcome(<<>>, <<"A">>, <<" ">>, sPASSED, <<>>),
     PytestOutcome(<<>>, <<"A">>, <<" ">>, sRERUN, <<>>),
     PytestOutcome(<<>>, <<"t"," ","b">>, <<" "," ">>, sFAILED, <<" ","-"," ","w","a","s"," ","P","A","S","S","E","D">>),
     PytestOutcome(<<" "," ">>, <<"A">>, <<"\t">>, sERROR, <<":"," ","b","o","o","m"," ">>),
     PytestOutcome(<<>>, <<"t","e","s","t"," ","X"," ",".",".",".">>, <<" ">>, sRERUN, <<>>),
     PytestOutcome(<<>>, <<"t","e","s","t"," ","X"," ",".",".",".">>, <<" ">>, sPASSED, <<>>),
     Noise(<<"c","o","l","l","e","c","t","e","d"," ","2"," ","i","t","e","m","s">>)}

\* test <X> ... <STATUS>
RunnerLine(X, status) == <<"t","e","s","t"," ">> \o X \o <<" ",".",".","."," ">> \o status

\* The log of the rerun-overwrite law, for the test X.
RerunThenPassed(X) ==
    File(TextOf(<<RunnerLine(X, sRERUN), RunnerLine(X, sPASSED)>>))

\* Names without a status word in them.
PlainNames == {<<"X">>, <<"m",":",":","t"," ","1">>}

\* A name with a status word in it.
StatusWordNames == {<<"o","n"," ","P","A","S","S","E","D"," ","d","a","y">>}

\* Logs of n lines of the pool, 1 <= n <= MaxLogLines.
LogsOver(pool) ==
    {File(TextOf([i \in 1..Len(recs) |-> recs[i].txt])) :
        recs \in SeqsOf(pool, 1, MaxLogLines)}

PytestLogFiles ==
    LogsOver(PytestLinePool)
    \cup {RerunThenPassed(X) : X \in PlainNames \cup StatusWordNames}

\* [<pad><TAG><pad>] <name><suffix>, where TAG reports `status`
GtestOutcome(pad1, tag, pad2, name, suffix, status) ==
    [txt |-> <<"[">> \o pad1 \o tag \o pad2 \o <<"]"," ">> \o name \o suffix,
     pass |-> "text", name |-> name, status |-> status]

GtestLinePool ==
    {Noise(<<"["," ","R","U","N"," ","]"," ","T",".","O","n","e">>),
     GtestOutcome(<<" ">>, sOK, <<" ">>, <<"T",".","O","n","e">>, <<>>, sPASSED),
     Noise(<<"["," ","R","U","N"," ","]"," ","T",".","T","w","o">>),
     GtestOutcome(<<" ">>, sFAILED, <<" ">>, <<"T",".","T","w","o">>, <<>>, sFAILED),
     GtestOutcome(<<" "," ">>, sFAILED, <<" "," ">>, <<"T",".","O","n","e">>, <<" ","(","3"," ","m","s",")">>, sFAILED),
     GtestOutcome(<<" "," "," "," "," "," "," ">>, sOK, <<" ">>, <<"T",".","T","w","o">>, <<" ","(","0"," ","m","s",")">>, sPASSED)}

\* The log of the bracketed-dialect scenario: the body, then the summary.
GtestScenarioLog ==
    File(TextOf(<<<<"["," ","R","U","N"," ","]"," ","T",".","O","n","e">>, <<"["," ","O","K"," ","]"," ","T",".","O","n","e">>, <<"["," ","R","U","N"," ","]"," ","T",".","T","w","o">>,
                  <<"["," ","F","A","I","L","E","D"," ","]"," ","T",".","T","w","o">>, <<"["," ","F","A","I","L","E","D"," ","]"," ","T",".","T","w","o">>>>))

\* Whole documents given to parse_gtest_log, with the dict their structured
\* reading holds and the dict their lines hold as text.
GtestDocs ==
    {[txt |-> <<"{","\"","t","e","s","t","s","u","i","t","e","s","\"",":","[","{","\"","n","a","m","e","\"",":","\"","S","\"",",","\"","t","e","s","t","s","u","i","t","e","\"",":","[","{","\"","n","a","m","e","\"",":","\"","t","1","\"",",","\"","r","e","s","u","l","t","\"",":","\"","C","O","M","P","L","E","T","E","D","\"","}",",","{","\"","n","a","m","e","\"",":","\"","t","2","\"",",","\"","o","k","\"",":","f","a","l","s","e","}","]","}","]","}">>,
      holds |-> (<<"S",".","t","1">> :> sPASSED) @@ (<<"S",".","t","2">> :> sFAILED),
      text |-> EmptyDict],
     [txt |-> <<"{","\"","t","e","s","t","s","u","i","t","e","s","\"",":","[","\n","{","\"","n","a","m","e","\"",":","\"","S","\"",",","\"","t","e","s","t","s","\"",":","[","{","\"","n","a","m","e","\"",":","\"","t","1","\"",",","\"","s","t","a","t","u","s","\"",":","\"","s","k","i","p","p","e","d","\"","}","]","}","\n","]","}","\n">>,
      holds |-> (<<"S",".","t","1">> :> sSKIPPED), text |-> EmptyDict],
     [txt |-> <<"{","\"","t","e","s","t","s","u","i","t","e","s","\"",":","[","]","}","\n","["," ","O","K"," ","]"," ","T",".","O","n","e","\n">>, holds |-> EmptyDict,
      text |-> (<<"T",".","O","n","e">> :> sPASSED)],
     [txt |-> <<"{","\"","t","e","s","t","s","u","i","t","e","s","\"",":","[","{","\"","n","a","m","e","\"",":","\"","S","\"",",","\"","t","e","s","t","s","u","i","t","e","\"",":","[","]","}","]","}">>,
      holds |-> EmptyDict, text |-> EmptyDict],
     [txt |-> <<"{","\"","t","e","s","t","s","\"",":","[","{","\"","n","a","m","e","\"",":","\"","t","1","\"",",","\"","o","k","\"",":","t","r","u","e","}","]","}">>, holds |-> EmptyDict,
      text |-> EmptyDict],
     [txt |-> <<"{","\"","t","e","s","t","s","u","i","t","e","s","\"",":","5","}">>, holds |-> EmptyDict, text |-> EmptyDict]}

GtestLogFiles ==
    LogsOver(GtestLinePool)
    \cup {GtestScenarioLog}
    \cup {File(d.txt) : d \in GtestDocs}

\* test <name> ... <word>, where the word reports `status`
RustOutcome(name, word, trail, status) ==
    [txt |-> <<"t","e","s","t"," ">> \o name \o <<" ",".",".","."," ">> \o word \o trail,
     pass |-> "text", name |-> name, status |-> status]

\* {"type":"test","event":<event>,"name":<name>}
RustEvent(type, event, name, status) ==
    [txt |-> ObjectText(<<<<kType, type>>, <<kEvent, event>>,
                          <<kName, name>>>>),
     pass |-> IF status = <<>> THEN "none" ELSE "json",
     name |-> name, status |-> status]

RustLinePool ==
    {RustOutcome(<<"A">>, <<"o","k">>, <<>>, sPASSED),
     RustOutcome(<<"A">>, <<"F","A","I","L","E","D">>, <<","," ","s","e","e"," ","b","e","l","o","w">>, sFAILED),
     RustOutcome(<<"m",":",":","b">>, <<"i","g","n","o","r","e","d">>, <<>>, sSKIPPED),
     Noise(<<"r","u","n","n","i","n","g"," ","2"," ","t","e","s","t","s">>),
     RustEvent(<<"t","e","s","t">>, <<"o","k">>, <<"A">>, sPASSED),
     RustEvent(<<"t","e","s","t">>, <<"f","a","i","l","e","d">>, <<"m",":",":","b">>, sFAILED),
     RustEvent(<<"t","e","s","t">>, <<"s","t","a","r","t","e","d">>, <<"A">>, <<>>),
     RustEvent(<<"s","u","i","t","e">>, <<"o","k">>, <<"A">>, <<>>)}

\* A runner line whose name is nothing but white space.
RustBlankNameLog == File(TextOf(<<<<"t","e","s","t"," "," "," ",".",".","."," ","o","k">>>>))

RustLogFiles == LogsOver(RustLinePool) \cup {RustBlankNameLog}

LogFiles(b) ==
    {Missing}
    \cup CASE b = "pytest" -> PytestLogFiles
           [] b = "gtest"  -> GtestLogFiles
           [] b = "rust"   -> RustLogFiles

\* The reference file of these runs.
ReferenceFile ==
    File(<<"[","{","\"","n","a","m","e","\"",":","\"","A","\"",",","\"","s","t","a","t","u","s","\"",":","\"","p","a","s","s","e","d","\"","}",",","{","\"","n","a","m","e","\"",":","\"","T",".","O","n","e","\"",",","\"","s","t","a","t","u","s","\"",":","\"","P","A","S","S","E","D","\"","}","]">>)

\* main() after parse_results_json has returned the dict of ReferenceFile.
InitLog ==
    /\ build \in Builds
    /\ pc = "parse_log"
    /\ json_file = ReferenceFile
    /\ log_file \in LogFiles(build)
    /\ json_results = parse_results_json(build, ReferenceFile).val
    /\ log_results = EmptyDict
    /\ lines = <<>>
    /\ idx = 0
    /\ results = EmptyDict
    /\ structured = EmptyDict
    /\ result = NoResult
    /\ exc = "none"
    /\ out = <<"[INFO] Reading JSON", "[INFO] Parsed JSON">>
    /\ exit_code = 0

NextLog ==
    \/ OpenLog
    \/ GtestJson
    \/ RustJsonStep
    \/ RustJsonDone
    \/ TextStep
    \/ TextDone
    \/ Compare
    \/ Report
    \/ HandleError

SpecLog == InitLog /\ [][NextLog]_vars

(***************************************************************************)
(* Properties of the log extractors, under SpecLog                         *)
(***************************************************************************)

\* The log extractor has returned its dict.
LogReturned == pc \in {"compare", "report", "exit"} /\ exc = "none"

\* The log extractor has returned or raised.
LogFinished == pc \in {"compare", "report", "exit", "except"}

\* The log is made of lines of the pool.
FromPool(pool) ==
    /\ log_file.kind = "file"
    /\ lines = SplitLines(log_file.text)
    /\ \A i \in 1..Len(lines) : \E r \in pool : r.txt = lines[i]

\* The generated line with this text.
LineOf(pool, txt) == CHOOSE r \in pool : r.txt = txt

\* What the first k lines report to the pass `pass`: for each name, the
\* status of the last line about it that is not a RERUN line.
LastReported(pool, k, pass) ==
    LET rec(i) == LineOf(pool, lines[i])
        counted == {i \in 1..k : rec(i).pass = pass /\ rec(i).status # sRERUN}
        last(n) == CHOOSE i \in counted :
                       /\ rec(i).name = n
                       /\ \A j \in counted : rec(j).name = n => j <= i
    IN  [n \in {rec(i).name : i \in counted} |-> rec(last(n)).status]

\* C4: parse_pytest_log maps each name to the status of the last line about
\* it that is not a RERUN line, after any number of lines; a RERUN line
\* changes nothing and RERUN is never a value.
C4_LastNonRerunWins ==
    (build = "pytest" /\ FromPool(PytestLinePool)) =>
        /\ pc = "text_pass" =>
              results = LastReported(PytestLinePool, idx, "text")
        /\ LogReturned =>
              log_results = LastReported(PytestLinePool, Len(lines), "text")
        /\ \A n \in DOMAIN results : results[n] # sRERUN
        /\ \A n \in DOMAIN log_results : log_results[n] # sRERUN

\* A RERUN line after an outcome line for A, and a name with RERUN lines only.
C4_Witness ==
    /\ build = "pytest"
    /\ pc = "text_pass"
    /\ idx = 3
    /\ lines = <<<<"A"," ","P","A","S","S","E","D">>, <<"A"," ","R","E","R","U","N">>, <<"t","e","s","t"," ","X"," ",".",".","."," ","R","E","R","U","N">>>>
    /\ results = (<<"A">> :> sPASSED)

\* The key parse_pytest_log gives the line "test X ... <STATUS>".
RunnerKey(X) == <<"t","e","s","t"," ">> \o X \o <<" ",".",".",".">>

\* C5 as stated: the log "test X ... RERUN", "test X ... PASSED" yields
\* exactly {X: PASSED}.
C5_KeyIsX ==
    \A X \in PlainNames :
        (build = "pytest" /\ log_file = RerunThenPassed(X) /\ LogFinished) =>
            (exc = "none" /\ log_results = (X :> sPASSED))

\* C5, amended: for a name X without a status word in it, the log
\* "test X ... RERUN", "test X ... PASSED" is extracted without error and
\* yields exactly {"test X ...": PASSED}; the key is everything before the
\* status word, not X.
C5_RerunThenPassed ==
    \A X \in PlainNames :
        (build = "pytest" /\ log_file = RerunThenPassed(X) /\ LogFinished) =>
            (exc = "none" /\ log_results = (RunnerKey(X) :> sPASSED))

C5_Witness ==
    /\ build = "pytest"
    /\ log_file = RerunThenPassed(<<"X">>)
    /\ pc = "compare"
    /\ log_results = (<<"t","e","s","t"," ","X"," ",".",".",".">> :> sPASSED)

\* What the lines of the log report as text, and as JSON events.
TextReported(pool) == LastReported(pool, Len(lines), "text")

JsonReported(pool) == LastReported(pool, Len(lines), "json")

\* C7: parse_gtest_log and parse_rust_log run the text pass only after the
\* structured pass has yielded an empty dict; a non-empty structured dict is
\* returned as it is, and otherwise the dict of the text pass alone; the
\* result is never a merge of the two.
C7_StructuredFirst ==
    (build \in {"gtest", "rust"}) =>
        /\ pc = "text_pass" => DOMAIN structured = {}
        /\ DOMAIN structured # {} => DOMAIN results = {}
        /\ LogReturned =>
              log_results = IF DOMAIN structured # {} THEN structured
                                                      ELSE results
        /\ (build = "rust" /\ LogReturned /\ FromPool(RustLinePool)) =>
              log_results = IF DOMAIN JsonReported(RustLinePool) # {}
                            THEN JsonReported(RustLinePool)
                            ELSE TextReported(RustLinePool)
        /\ (build = "gtest" /\ LogReturned /\ FromPool(GtestLinePool)) =>
              log_results = TextReported(GtestLinePool)
        /\ \A d \in GtestDocs :
              (build = "gtest" /\ LogReturned /\ log_file = File(d.txt)) =>
                  log_results = IF DOMAIN d.holds # {} THEN d.holds
                                                       ELSE d.text

\* A Rust log with a runner line and a JSON event: the event alone counts.
C7_Witness ==
    /\ build = "rust"
    /\ pc = "compare"
    /\ lines = <<<<"t","e","s","t"," ","A"," ",".",".","."," ","o","k">>,
                 <<"{","\"","t","y","p","e","\"",":","\"","t","e","s","t","\"",",","\"","e","v","e","n","t","\"",":","\"","f","a","i","l","e","d","\"",",","\"","n","a","m","e","\"",":","\"","m",":",":","b","\"","}">>>>
    /\ log_results = (<<"m",":",":","b">> :> sFAILED)

\* C8: in the text pass of parse_gtest_log the last [OK], [FAILED] or
\* [SKIPPED] line about a name decides its status, so a [FAILED] line after
\* an [OK] line leaves FAILED; [ RUN ] lines give no entry; the scenario log
\* yields exactly {T.One: PASSED, T.Two: FAILED}.
C8_FailedAfterOk ==
    build = "gtest" =>
        /\ (pc = "text_pass" /\ FromPool(GtestLinePool)) =>
              results = LastReported(GtestLinePool, idx, "text")
        /\ (log_file = GtestScenarioLog /\ LogFinished) =>
              /\ exc = "none"
              /\ log_results = (<<"T",".","O","n","e">> :> sPASSED) @@ (<<"T",".","T","w","o">> :> sFAILED)

\* [ RUN ], [ OK ] and then a [ FAILED ] line with a duration, all for T.One.
C8_Witness ==
    /\ build = "gtest"
    /\ pc = "text_pass"
    /\ idx = 3
    /\ lines = <<<<"["," ","R","U","N"," ","]"," ","T",".","O","n","e">>, <<"["," ","O","K"," ","]"," ","T",".","O","n","e">>, <<"["," "," ","F","A","I","L","E","D"," "," ","]"," ","T",".","O","n","e"," ","(","3"," ","m","s",")">>>>
    /\ results = (<<"T",".","O","n","e">> :> sFAILED)

\* The bracketed-dialect scenario has been extracted.
C8_ScenarioExtracted ==
    /\ build = "gtest"
    /\ log_file = GtestScenarioLog
    /\ pc = "compare"

\* The keys of d are non-empty and trimmed.
KeysTrimmed(d) == \A n \in DOMAIN d : n # <<>> /\ Strip(n) = n

\* C9: an extractor that returns, returns a non-empty dict whose keys are
\* non-empty trimmed strings; the comparator never gets an empty dict.
C9_NonEmptyTrimmedKeys ==
    /\ pc # "parse_json" /\ exc = "none" =>
          DOMAIN json_results # {} /\ KeysTrimmed(json_results)
    /\ LogReturned => DOMAIN log_results # {} /\ KeysTrimmed(log_results)

\* C9 without the keys of parse_rust_log's text pass: what does hold.
C9_NonEmptyDicts ==
    /\ pc # "parse_json" /\ exc = "none" =>
          DOMAIN json_results # {} /\ KeysTrimmed(json_results)
    /\ LogReturned => DOMAIN log_results # {}
    /\ (LogReturned /\ ~(build = "rust" /\ DOMAIN structured = {})) =>
          KeysTrimmed(log_results)

(***************************************************************************)
(* main() on every reference file of JsonFiles                             *)
(***************************************************************************)

Init ==
    /\ build \in Builds
    /\ pc = "parse_json"
    /\ json_file \in JsonFiles
    /\ log_file \in MainLogFiles(build)
    /\ json_results = EmptyDict
    /\ log_results = EmptyDict
    /\ lines = <<>>
    /\ idx = 0
    /\ results = EmptyDict
    /\ structured = EmptyDict
    /\ result = NoResult
    /\ exc = "none"
    /\ out = <<>>
    /\ exit_code = 0

Next ==
    \/ ParseJson
    \/ OpenLog
    \/ GtestJson
    \/ RustJsonStep
    \/ RustJsonDone
    \/ TextStep
    \/ TextDone
    \/ Compare
    \/ Report
    \/ HandleError

Spec == Init /\ [][Next]_vars

(***************************************************************************)
(* Properties of main() and of parse_results_json, under Spec              *)
(***************************************************************************)

Printed(event) == \E i \in 1..Len(out) : out[i] = event

\* parse_results_json has returned its dict.
JsonReturned == pc # "parse_json" /\ Printed("[INFO] Parsed JSON")

\* Generated newline-delimited files whose entries all carry a name.
NdjsonCases ==
    {[txt |-> NdjsonText(es), entries |-> es] :
        es \in {x \in EntrySeqs : \A i \in 1..Len(x) : x[i].name # <<>>}}

\* The status the last entry named n carries.
LastStatus(es, n) ==
    es[CHOOSE i \in 1..Len(es) :
           /\ es[i].name = n
           /\ \A j \in 1..Len(es) : es[j].name = n => j <= i].status

\* The dict parse_results_json owes script b for these entries.
Owed(b, es) ==
    [n \in {es[i].name : i \in 1..Len(es)} |->
        _canon_status(b, LastStatus(es, n))]

\* C6: a file of n >= 1 lines, each a JSON object with a name, is extracted
\* without error into the dict of those names, n = 1 included.
C6_NdjsonAccepted ==
    pc \in {"parse_log", "except"} =>
        \A c \in NdjsonCases :
            json_file = File(c.txt) =>
                JsonReturned /\ json_results = Owed(build, c.entries)

\* C6 for files of two lines or more: what does hold.
C6_NdjsonFromTwoLines ==
    pc \in {"parse_log", "except"} =>
        \A c \in NdjsonCases :
            (json_file = File(c.txt) /\ Len(c.entries) >= 2) =>
                JsonReturned /\ json_results = Owed(build, c.entries)

\* C10: main() extracts the reference, then the log, then compares, then
\* reports. A failed file check or extraction ends the run there with exit
\* code 2 and neither comparison nor report; after a failed reference
\* extraction the log is never read. When both extractions succeed the run
\* reports and exits 0, whether `same` is true or false.
C10_Pipeline ==
    LET bothExtracted == Printed("[INFO] Parsed JSON")
                            /\ Printed("[INFO] Parsed LOG")
        reported == Printed("MATCH") \/ Printed("DIFFERENCES FOUND")
                       \/ Printed("JSON_DIFF")
    IN  /\ Printed("[INFO] Reading log") =>
              SubSeq(out, 1, 3) = <<"[INFO] Reading JSON",
                                    "[INFO] Parsed JSON",
                                    "[INFO] Reading log">>
        /\ ~Printed("[INFO] Reading log") =>
              /\ lines = <<>>
              /\ log_results = EmptyDict
        /\ (result # NoResult \/ pc = "report" \/ reported) =>
              bothExtracted /\ result = compare(json_results, log_results)
        /\ reported => pc = "exit" /\ ~Printed("[ERROR]")
        /\ pc = "exit" =>
              IF bothExtracted
              THEN /\ exit_code = 0
                   /\ Printed("JSON_DIFF")
                   /\ Printed(IF result.same THEN "MATCH"
                                             ELSE "DIFFERENCES FOUND")
              ELSE /\ exit_code = 2
                   /\ out[Len(out)] = "[ERROR]"
                   /\ ~reported
                   /\ result = NoResult

\* A run that reported differences and exited 0.
C10_Witness ==
    /\ pc = "exit"
    /\ exit_code = 0
    /\ ~result.same
    /\ Printed("DIFFERENCES FOUND")

\* A run whose reference extraction failed.
C10_FailedReference ==
    /\ pc = "exit"
    /\ exit_code = 2
    /\ ~Printed("[INFO] Parsed JSON")
    /\ log_file.kind = "file"

(***************************************************************************)
(* The flags of a ComparisonResult, under SpecCompare                      *)
(***************************************************************************)

\* The two result sets are non-empty, of one size, and share no name.
DisjointEqualSize ==
    /\ DOMAIN json_results # {}
    /\ Cardinality(DOMAIN json_results) = Cardinality(DOMAIN log_results)
    /\ (DOMAIN json_results) \cap (DOMAIN log_results) = {}

\* C13: in every result of compare, names_equal implies counts_equal, so
\* same is names_equal and statuses_equal; counts_equal does not imply
\* names_equal: disjoint sets of one size give counts_equal, not names_equal,
\* statuses_equal and not same; and count_json - len(only_in_json) equals
\* count_log - len(only_in_log).
C13_FlagDependency ==
    Compared =>
        /\ result.names_equal => result.counts_equal
        /\ result.same <=> (result.names_equal /\ result.statuses_equal)
        /\ result.count_json - Len(result.only_in_json)
              = result.count_log - Len(result.only_in_log)
        /\ DisjointEqualSize =>
              /\ result.counts_equal
              /\ ~result.names_equal
              /\ result.statuses_equal
              /\ ~result.same

\* compare() has run on two disjoint sets of two names each.
C13_Witness ==
    /\ Compared
    /\ DisjointEqualSize
    /\ result.count_json = 2
    /\ result.counts_equal
    /\ ~result.names_equal

(***************************************************************************)
(* _canon_status on status strings of every shape, through main()          *)
(***************************************************************************)

\* Status strings a reference file may carry, each with the status the
\* three scripts return for it.
StatusCases ==
    {[raw |-> <<"p","a","s","s","e","d">>,
      want |-> [pytest |-> <<"P","A","S","S","E","D">>, gtest |-> <<"P","A","S","S","E","D">>, rust |-> <<"P","A","S","S","E","D">>]],
     [raw |-> <<"P","A","S","S","E","D">>,
      want |-> [pytest |-> <<"P","A","S","S","E","D">>, gtest |-> <<"P","A","S","S","E","D">>, rust |-> <<"P","A","S","S","E","D">>]],
     [raw |-> <<" ","P","a","s","s","e","d"," ">>,
      want |-> [pytest |-> <<"P","A","S","S","E","D">>, gtest |-> <<"P","A","S","S","E","D">>, rust |-> <<"P","A","S","S","E","D">>]],
     [raw |-> <<"f","a","i","l","e","d">>,
      want |-> [pytest |-> <<"F","A","I","L","E","D">>, gtest |-> <<"F","A","I","L","E","D">>, rust |-> <<"F","A","I","L","E","D">>]],
     [raw |-> <<"S","k","i","p","p","e","d">>,
      want |-> [pytest |-> <<"S","K","I","P","P","E","D">>, gtest |-> <<"S","K","I","P","P","E","D">>, rust |-> <<"S","K","I","P","P","E","D">>]],
     [raw |-> <<"x","f","a","i","l","e","d">>,
      want |-> [pytest |-> <<"X","F","A","I","L","E","D">>, gtest |-> <<"X","F","A","I","L","E","D">>, rust |-> <<"X","F","A","I","L","E","D">>]],
     [raw |-> <<"X","P","A","S","S">>,
      want |-> [pytest |-> <<"X","P","A","S","S">>, gtest |-> <<"X","P","A","S","S">>, rust |-> <<"X","P","A","S","S">>]],
     [raw |-> <<"e","r","r","o","r"," ">>,
      want |-> [pytest |-> <<"E","R","R","O","R">>, gtest |-> <<"E","R","R","O","R">>, rust |-> <<"E","R","R","O","R">>]],
     [raw |-> <<"o","k">>,
      want |-> [pytest |-> <<"O","K">>, gtest |-> <<"P","A","S","S","E","D">>, rust |-> <<"P","A","S","S","E","D">>]],
     [raw |-> <<" ","O","K">>,
      want |-> [pytest |-> <<"O","K">>, gtest |-> <<"P","A","S","S","E","D">>, rust |-> <<"P","A","S","S","E","D">>]],
     [raw |-> <<"O","k">>,
      want |-> [pytest |-> <<"O","K">>, gtest |-> <<"P","A","S","S","E","D">>, rust |-> <<"P","A","S","S","E","D">>]],
     [raw |-> <<"i","g","n","o","r","e","d">>,
      want |-> [pytest |-> <<"I","G","N","O","R","E","D">>, gtest |-> <<"I","G","N","O","R","E","D">>, rust |-> <<"S","K","I","P","P","E","D">>]],
     [raw |-> <<"I","G","N","O","R","E","D"," ">>,
      want |-> [pytest |-> <<"I","G","N","O","R","E","D">>, gtest |-> <<"I","G","N","O","R","E","D">>, rust |-> <<"S","K","I","P","P","E","D">>]],
     [raw |-> <<"r","e","r","u","n">>,
      want |-> [pytest |-> <<"R","E","R","U","N">>, gtest |-> <<"R","E","R","U","N">>, rust |-> <<"R","E","R","U","N">>]],
     [raw |-> <<"f","l","a","k","y">>,
      want |-> [pytest |-> <<"F","L","A","K","Y">>, gtest |-> <<"F","L","A","K","Y">>, rust |-> <<"F","L","A","K","Y">>]],
     [raw |-> <<" ","F","l","a","k","y"," ">>,
      want |-> [pytest |-> <<"F","L","A","K","Y">>, gtest |-> <<"F","L","A","K","Y">>, rust |-> <<"F","L","A","K","Y">>]],
     [raw |-> <<"F","L","A","K","Y">>,
      want |-> [pytest |-> <<"F","L","A","K","Y">>, gtest |-> <<"F","L","A","K","Y">>, rust |-> <<"F","L","A","K","Y">>]],
     [raw |-> <<>>,
      want |-> [pytest |-> <<>>, gtest |-> <<>>, rust |-> <<>>]],
     [raw |-> <<" "," ">>,
      want |-> [pytest |-> <<>>, gtest |-> <<>>, rust |-> <<>>]],
     [raw |-> <<"n","o","t"," ","r","u","n">>,
      want |-> [pytest |-> <<"N","O","T"," ","R","U","N">>, gtest |-> <<"N","O","T"," ","R","U","N">>, rust |-> <<"N","O","T"," ","R","U","N">>]],
     [raw |-> <<"S","U","C","C","E","S","S">>,
      want |-> [pytest |-> <<"S","U","C","C","E","S","S">>, gtest |-> <<"S","U","C","C","E","S","S">>, rust |-> <<"S","U","C","C","E","S","S">>]]}

\* Longest of the short status strings.
MaxStatusLen == 3

\* Every string of spaces and the letters of "ok" in either case.
ShortStatuses == SeqsOf({" ", "o", "k", "O", "K"}, 0, MaxStatusLen)

StatusInputs == {c.raw : c \in StatusCases} \cup ShortStatuses

\* The reference file with the single test A carrying this status.
CanonFile(raw) ==
    File(ArrayText(<<[text |-> ObjectText(<<<<kName, <<"A">>>>,
                                            <<kStatus, raw>>>>)]>>))

InitCanon ==
    /\ build \in Builds
    /\ pc = "parse_json"
    /\ json_file \in {CanonFile(c.raw) : c \in StatusCases}
    /\ log_file \in MainLogFiles(build)
    /\ json_results = EmptyDict
    /\ log_results = EmptyDict
    /\ lines = <<>>
    /\ idx = 0
    /\ results = EmptyDict
    /\ structured = EmptyDict
    /\ result = NoResult
    /\ exc = "none"
    /\ out = <<>>
    /\ exit_code = 0

SpecCanon == InitCanon /\ [][Next]_vars

\* The six canonical statuses.
CanonicalSix == {sPASSED, sFAILED, sSKIPPED, sXFAILED, sXPASS, sERROR}

\* C11: _canon_status depends only on the trimmed, upper-cased input; a
\* token of the script's table maps to its table value, one of the six
\* canonical statuses; any other token comes back trimmed and upper-cased;
\* and canonicalizing twice is canonicalizing once, in each script.
C11_Canonicalizer ==
    /\ \A s \in StatusInputs :
          LET token == Upper(Strip(s))
              canon == _canon_status(build, s)
          IN  /\ canon = _canon_status(build, token)
              /\ _canon_status(build, canon) = canon
              /\ IF token \in DOMAIN CANON_STATUSES(build)
                 THEN canon = CANON_STATUSES(build)[token]
                         /\ canon \in CanonicalSix
                 ELSE canon = token
    /\ \A c \in StatusCases :
          /\ _canon_status(build, c.raw) = c.want[build]
          /\ (json_file = CanonFile(c.raw) /\ pc # "parse_json") =>
                /\ Len(out) >= 2 /\ out[2] = "[INFO] Parsed JSON"
                /\ json_results = (<<"A">> :> c.want[build])

\* The gtest script has read the status " OK" of test A as PASSED.
C11_Witness ==
    /\ build = "gtest"
    /\ pc = "parse_log"
    /\ json_file = CanonFile(<<" ", "O", "K">>)
    /\ json_results = (<<"A">> :> sPASSED)

(***************************************************************************)
(* _parse_gtest_json on documents of test cases                            *)
(***************************************************************************)

\* The fields of a case object next to its name; <<>> and "absent" for a
\* field the object does not have.
CaseStatuses == {<<>>, <<"s","k","i","p","p","e","d">>, <<"R","U","N">>, <<"F","A","I","L","E","D">>}

CaseResults == {<<>>, <<"C","O","M","P","L","E","T","E","D">>, <<"F","a","i","l","u","r","e">>, <<"S","K","I","P","P","E","D">>, <<" ","s","k","i","p","p","e","d"," ">>, <<"w","e","i","r","d">>}

CaseOks == {"absent", "true", "false"}

CasePool == [status : CaseStatuses, result : CaseResults, ok : CaseOks]

\* Cases that come first in a document of two: one with each outcome.
FirstCases ==
    {[status |-> <<>>, result |-> <<>>, ok |-> "true"],
     [status |-> <<"R","U","N">>, result |-> <<"F","a","i","l","u","r","e">>, ok |-> "absent"],
     [status |-> <<"s","k","i","p","p","e","d">>, result |-> <<>>, ok |-> "absent"]}

CaseSeqs == {<<c>> : c \in CasePool}
               \cup {<<a, c>> : a \in FirstCases, c \in CasePool}

\* The case object: "name" and the fields the case has.
CaseText(c) ==
    <<"{","\"","n","a","m","e","\"",":","\"","t","1","\"">>
    \o (IF c.status = <<>> THEN <<>>
        ELSE <<",">> \o Quoted(kStatus) \o <<":">> \o Quoted(c.status))
    \o (IF c.result = <<>> THEN <<>>
        ELSE <<",">> \o Quoted(kResult) \o <<":">> \o Quoted(c.result))
    \o (CASE c.ok = "absent" -> <<>>
          [] c.ok = "true"   -> <<",","\"","o","k","\"",":","t","r","u","e">>
          [] c.ok = "false"  -> <<",","\"","o","k","\"",":","f","a","l","s","e">>)
    \o <<"}">>

\* The document with one suite S holding these cases.
CaseDoc(cs) ==
    File(<<"{","\"","t","e","s","t","s","u","i","t","e","s","\"",":","[","{","\"","n","a","m","e","\"",":","\"","S","\"",",","\"","t","e","s","t","s","u","i","t","e","\"",":","[">>
         \o JoinWith([i \in 1..Len(cs) |-> CaseText(cs[i])], <<",">>)
         \o <<"]","}","]","}">> \o <<"\n">>)

\* parse_gtest_log on every such document, after the reference set has
\* been read.
InitGtestJson ==
    /\ build = "gtest"
    /\ pc = "parse_log"
    /\ json_file = ReferenceFile
    /\ log_file \in {CaseDoc(cs) : cs \in CaseSeqs}
    /\ json_results = parse_results_json(build, ReferenceFile).val
    /\ log_results = EmptyDict
    /\ lines = <<>>
    /\ idx = 0
    /\ results = EmptyDict
    /\ structured = EmptyDict
    /\ result = NoResult
    /\ exc = "none"
    /\ out = <<"[INFO] Reading JSON", "[INFO] Parsed JSON">>
    /\ exit_code = 0

NextGtestJson ==
    \/ OpenLog
    \/ GtestJson
    \/ TextStep
    \/ TextDone
    \/ Compare
    \/ Report
    \/ HandleError

SpecGtestJson == InitGtestJson /\ [][NextGtestJson]_vars

\* The case carries an explicit skip marker.
SkipMarked(c) == Upper(c.status) = sSKIPPED \/ Upper(c.result) = sSKIPPED

\* The status the mapping of result strings gives str; <<>> for none.
MappedString(str) ==
    LET token == Upper(Strip(str))
    IN  IF token \in {<<"P","A","S","S","E","D">>, <<"S","U","C","C","E","S","S">>, <<"C","O","M","P","L","E","T","E","D">>} THEN sPASSED
        ELSE IF token \in {<<"F","A","I","L","E","D">>, <<"F","A","I","L","U","R","E">>} THEN sFAILED
        ELSE IF token = <<"S","K","I","P","P","E","D">> THEN sSKIPPED
        ELSE <<>>

\* The outcome of a case in priority order: skip marker, boolean ok, then
\* the string `str`; <<>> for no entry.
OutcomeBy(c, str) ==
    IF SkipMarked(c) THEN sSKIPPED
    ELSE IF c.ok = "true" THEN sPASSED
    ELSE IF c.ok = "false" THEN sFAILED
    ELSE MappedString(str)

\* The result/status string of a case: its result, or its status when it
\* has no result.
ResultOrStatus(c) == IF c.result # <<>> THEN c.result ELSE c.status

\* The mapping a document of these cases owes, given the outcome of each
\* case: a case without outcome leaves the mapping as it is.
DocMapping(cs, outcome(_)) ==
    LET given == {i \in 1..Len(cs) : outcome(cs[i]) # <<>>}
    IN  IF given = {} THEN EmptyDict
        ELSE <<"S",".","t","1">> :> outcome(cs[CHOOSE i \in given :
                                      \A j \in given : j <= i])

\* _parse_gtest_json has returned for the document of the run.
StructuredPassDone == pc \notin {"parse_log", "structured_pass"}

\* C12: _parse_gtest_json derives the outcome of each named case in
\* priority order: a skip marker gives SKIPPED even with a boolean ok;
\* otherwise a boolean ok gives PASSED or FAILED even when a string
\* disagrees; otherwise the result/status string is mapped; a case whose
\* string is none of the mapped ones gives no entry and leaves the mapping
\* unchanged.
C12_OutcomePriority ==
    \A cs \in CaseSeqs :
        (log_file = CaseDoc(cs) /\ StructuredPassDone) =>
            /\ exc \in {"none", "ValueError"}
            /\ structured =
                  DocMapping(cs, LAMBDA c : OutcomeBy(c, ResultOrStatus(c)))

\* C12 with the string read from the field result alone: what does hold.
C12_PriorityOnResult ==
    \A cs \in CaseSeqs :
        (log_file = CaseDoc(cs) /\ StructuredPassDone) =>
            /\ exc \in {"none", "ValueError"}
            /\ structured = DocMapping(cs, LAMBDA c : OutcomeBy(c, c.result))

====
